---- MODULE Spec2Model ----
(***************************************************************************)
(* Analytics session tracking of choice-story.                             *)
(*                                                                         *)
(* Two layers are modelled.  The wrapper hooks of useStoryAnalytics.ts     *)
(* (useStoryReadingAnalytics, useStoryCreationAnalytics,                   *)
(* useImageGenerationAnalytics) are translated from their code: each       *)
(* callback is an operator that returns the sequence of calls it forwards  *)
(* to FirebaseAnalyticsService.  The service itself                        *)
(* (@/app/services/firebase-analytics.service) is not among the source     *)
(* files; its registries and operations are modelled from the              *)
(* specification (sections 3, 4.1, 6) and from the Analytics Reference     *)
(* Guide that follows the component in StoryReaderHeader.tsx.              *)
(*                                                                         *)
(* Three smaller parts of the application are modelled beside them, each   *)
(* as a workflow of its own: the environment check of                      *)
(* verify-environment.js, the auto-fetch effect and refreshKids of         *)
(* useUserData, and handleSubmit of QuickGenerateDialog.                   *)
(***************************************************************************)
EXTENDS Integers, Sequences, FiniteSets, TLC

(* ------------------------------ bounds -------------------------------- *)
\* the clock (Date.now(), in abstract milliseconds) runs over 0..MaxTime
MaxTime == 1
\* a cost supplied with one completion is one of 0..MaxCost (abstract USD units), and
\* completions are explored while every cost bucket stays within 0..MaxCost
MaxCost == 1
\* story pages are numbered 1..MaxPage
MaxPage == 2
\* Date.now() of the account page moves on at most MaxAdvances times
MaxAdvances == 3
\* a text typed into the dialog has at most MaxLen characters
MaxLen == 2

(* ------------------------------ inputs -------------------------------- *)
NULL == "null"
UserIds == {"u1"}
KidIds == {"k1"}
\* a kid the image hook may name for whom the creation page runs no session
OtherKidIds == {"k2"}
StoryIds == {"s1"}
\* another story the mounted reader may be navigated to
OtherStoryIds == {"s2"}
\* what a hook may be given for `string | null` (and `kidId?: string`)
HookUserIds == UserIds \cup {NULL}
HookKidIds == KidIds \cup {NULL}
HookStoryIds == StoryIds \cup {NULL}
ReadPageTypes == {"normal", "good", "bad"}
ImagePageTypes == {"cover"}
PathTypes == {"good", "bad"}
\* `cost?: number`: absent (<<>>) or one number (<<c>>)
\* the operation a cost reported on its own is tagged with
CostOperations == {"text_regeneration"}
OptCosts == {<< >>} \cup {<<c>> : c \in 0..MaxCost}
\* the pages that use the analytics hooks
AnalyticsWorkflows == {"creation", "reading"}
Workflows == AnalyticsWorkflows \cup {"verify", "account", "dialog"}

\* process.env.NODE_ENV: not set, or any string
UNSET == "undefined"
NodeEnvValues == {UNSET, "", "production", "development", "test", "Production"}

\* the kids cache is fresh for five minutes, `5 * 60 * 1000`
StaleMs == 5 * 60 * 1000
\* Date.now() moves on by a millisecond or by a millisecond less than the cache time
ClockSteps == {1, StaleMs - 1}

\* the characters of a typed text: a blank and a letter
Chars == {" ", "a"}
Texts == UNION {[1..n -> Chars] : n \in 0..MaxLen}
\* the optional fields are left empty or filled
OptTexts == {<< >>, <<"a">>}

VARIABLES
  workflow,          \* which page of the application the tab is running
  now,               \* Date.now()
  creationSessions,  \* <<userId, kidId>> -> [startTime, titleCost, textCost, imageCost]
  titleGenStart,     \* <<userId, kidId>> -> start time of the title sub-timer
  textGenStart,      \* <<userId, kidId>> -> start time of the text sub-timer
  imageSessions,     \* <<userId, storyId, pageType>> -> start time
  readingSessions,   \* <<storyId, userId>> -> start time
  pageViews,         \* storyId -> [pageNum, pageType, startTime], the page-view baseline
  sessionStartedRef, \* useStoryReadingAnalytics: sessionStartedRef.current
  readingProps,      \* useStoryReadingAnalytics(storyId, userId) of the current render
  creationProps,     \* useStoryCreationAnalytics(userId, kidId) as mounted
  imageProps,        \* useImageGenerationAnalytics(userId, storyId, _, kidId) as mounted
  call,              \* the callback or service method the last step ran
  invoked,           \* the service calls the last step made, in order
  emitted,           \* the events the last step handed to the sink, in order
  repeated,          \* the last step ran a finish right after the same finish ended the session
  restarted,         \* the sessions a start of the last step found already started
  pending,           \* starts minus finishes the reading hook has forwarded so far
  startedKey,        \* <<storyId, userId>> of the hook's forwarded start not yet finished
  history,           \* per session kind and key: latest start and the costs supplied since
  env,               \* verify-environment.js: NODE_ENV and the collections it printed
  kids,              \* useUserData: the stores it reads, Date.now(), and its last calls
  dialog             \* QuickGenerateDialog: its state, and the trace of its last submit

trackerVars == <<creationSessions, titleGenStart, textGenStart, imageSessions,
                 readingSessions, pageViews>>
hookVars == <<sessionStartedRef, readingProps, creationProps, imageProps>>
vars == <<workflow, now, creationSessions, titleGenStart, textGenStart, imageSessions,
          readingSessions, pageViews, sessionStartedRef, readingProps, creationProps,
          imageProps, call, invoked, emitted, repeated, restarted, pending, startedKey,
          history, env, kids, dialog>>
appVars == <<env, kids, dialog>>
analyticsVars == <<workflow, now, trackerVars, hookVars, call, invoked, emitted,
                   repeated, restarted, pending, startedKey, history>>

(* ------------------------- Map (registry) helpers --------------------- *)
EmptyMap == << >>
Has(m, k) == k \in DOMAIN m
Put(m, k, v) == [x \in (DOMAIN m) \cup {k} |-> IF x = k THEN v ELSE m[x]]
Del(m, k) == [x \in (DOMAIN m) \ {k} |-> m[x]]

\* `cost || 0`
CostOrZero(cost) == IF Len(cost) = 1 THEN cost[1] ELSE 0
\* JavaScript truthiness of a `string | null`
Truthy(x) == x # NULL /\ x # ""

(* A call of a service method.  Fields a method does not take keep their   *)
(* default.                                                                *)
NoCall == [op |-> "none", userId |-> NULL, kidId |-> NULL, storyId |-> NULL,
           pageNum |-> 0, pageType |-> NULL, cost |-> << >>, isRegeneration |-> FALSE,
           operation |-> NULL]

(* The tracker's state as one value, so that a callback forwarding two     *)
(* calls composes them.                                                    *)
Tracker == [cs |-> creationSessions, tg |-> titleGenStart, xg |-> textGenStart,
            im |-> imageSessions, rs |-> readingSessions, pv |-> pageViews,
            out |-> << >>]

(* ------------------ FirebaseAnalyticsService (tracker) ---------------- *)
(* Every operation maps a tracker state st, a call c and the time t of the *)
(* call to the tracker state after it; st.out collects the emitted events. *)

CreationKey(c) == <<c.userId, c.kidId>>
ReadingKey(c) == <<c.storyId, c.userId>>
ImageKey(c) == <<c.userId, c.storyId, c.pageType>>

\* elapsed time of a sub-timer or session that stores its start time; 0 when absent
Elapsed(m, k, t) == IF Has(m, k) THEN t - m[k] ELSE 0
\* mutant: a missing session counted from the epoch, `now - (session?.startTime || 0)`
CreationElapsedFromEpoch(cs, k, t) == t - (IF Has(cs, k) THEN cs[k].startTime ELSE 0)

\* elapsed time of a creation session; 0 when absent
CreationElapsed(cs, k, t) == IF Has(cs, k) THEN t - cs[k].startTime ELSE 0

NewCreationSession(t) == [startTime |-> t, titleCost |-> 0, textCost |-> 0, imageCost |-> 0]

\* the openai_cost event a completion adds when a cost was supplied
CostEvents(c, operation, t) ==
  IF Len(c.cost) = 1
    THEN << [name |-> "openai_cost", timestamp |-> t, user_id |-> c.userId,
             operation |-> operation, cost_usd |-> c.cost[1]] >>
    ELSE << >>

startStoryCreationSession(st, c, t) ==
  [st EXCEPT !.cs = Put(@, CreationKey(c), NewCreationSession(t)),
             !.out = Append(@, [name |-> "story_creation_start", timestamp |-> t,
                                user_id |-> c.userId, kid_id |-> c.kidId])]

startTitleGeneration(st, c, t) ==
  [st EXCEPT !.tg = Put(@, CreationKey(c), t)]

TitleCostAdded(cs, k, cost) ==
  IF Has(cs, k) THEN [cs EXCEPT ![k].titleCost = @ + CostOrZero(cost)] ELSE cs

trackTitleGeneration(st, c, t) ==
  [st EXCEPT !.cs = TitleCostAdded(@, CreationKey(c), c.cost),
             !.tg = Del(@, CreationKey(c)),
             !.out = @ \o << [name |-> "title_generation", timestamp |-> t,
                              user_id |-> c.userId, kid_id |-> c.kidId,
                              duration_ms |-> Elapsed(st.tg, CreationKey(c), t)] >>
                       \o CostEvents(c, "title_generation", t)]

startTextGeneration(st, c, t) ==
  [st EXCEPT !.xg = Put(@, CreationKey(c), t),
             !.out = Append(@, [name |-> "creating_text_start", timestamp |-> t,
                                user_id |-> c.userId, kid_id |-> c.kidId])]

TextCostAdded(cs, k, cost) ==
  IF Has(cs, k) THEN [cs EXCEPT ![k].textCost = @ + CostOrZero(cost)] ELSE cs

trackTextGeneration(st, c, t) ==
  [st EXCEPT !.cs = TextCostAdded(@, CreationKey(c), c.cost),
             !.xg = Del(@, CreationKey(c)),
             !.out = @ \o << [name |-> "creating_text_finish", timestamp |-> t,
                              user_id |-> c.userId, kid_id |-> c.kidId,
                              duration_ms |-> Elapsed(st.xg, CreationKey(c), t)] >>
                       \o CostEvents(c, "story_generation", t)]

\* the three buckets of a session, each 0 when there is no session
Breakdown(cs, k) ==
  IF Has(cs, k)
    THEN [title |-> cs[k].titleCost, text |-> cs[k].textCost, image |-> cs[k].imageCost]
    ELSE [title |-> 0, text |-> 0, image |-> 0]

TotalCost(b) == b.title + b.text + b.image

trackStoryCreationCost(c, b, t) ==
  [name |-> "story_creation_cost", timestamp |-> t, user_id |-> c.userId,
   kid_id |-> c.kidId, story_id |-> c.storyId,
   title_generation_cost |-> b.title, story_text_cost |-> b.text,
   image_generation_cost |-> b.image, total_cost_usd |-> TotalCost(b)]

trackStoryCreationComplete(st, c, t) ==
  [st EXCEPT !.cs = Del(@, CreationKey(c)),
             !.out = @ \o << [name |-> "story_creation_complete", timestamp |-> t,
                              user_id |-> c.userId, kid_id |-> c.kidId,
                              story_id |-> c.storyId,
                              duration_ms |-> CreationElapsed(st.cs, CreationKey(c), t)],
                             trackStoryCreationCost(c, Breakdown(st.cs, CreationKey(c)), t) >>]

\* mutant: the error is reported and the session is left in the registry
trackStoryCreationErrorKeepsSession(st, c, t) ==
  [st EXCEPT !.out = Append(@, [name |-> "story_creation_error", timestamp |-> t,
                                user_id |-> c.userId, kid_id |-> c.kidId,
                                duration_ms |-> CreationElapsed(st.cs, CreationKey(c), t)])]

trackStoryCreationError(st, c, t) ==
  [st EXCEPT !.cs = Del(@, CreationKey(c)),
             !.out = Append(@, [name |-> "story_creation_error", timestamp |-> t,
                                user_id |-> c.userId, kid_id |-> c.kidId,
                                duration_ms |-> CreationElapsed(st.cs, CreationKey(c), t)])]

startImageGeneration(st, c, t) ==
  [st EXCEPT !.im = Put(@, ImageKey(c), t),
             !.out = Append(@, [name |-> "creating_image_start", timestamp |-> t,
                                user_id |-> c.userId, story_id |-> c.storyId,
                                page_type |-> c.pageType,
                                is_regeneration |-> c.isRegeneration])]

\* cross-session accumulation: the image cost goes to the session of (userId, kidId)
ImageCostAdded(cs, c) ==
  IF c.kidId # NULL /\ Has(cs, CreationKey(c))
    THEN [cs EXCEPT ![CreationKey(c)].imageCost = @ + CostOrZero(c.cost)]
    ELSE cs

RegenerationEvents(c, d, t) ==
  IF c.isRegeneration
    THEN << [name |-> "image_regeneration", timestamp |-> t, user_id |-> c.userId,
             story_id |-> c.storyId, page_type |-> c.pageType, duration_ms |-> d] >>
    ELSE << >>

trackImageGeneration(st, c, t) ==
  [st EXCEPT !.cs = ImageCostAdded(@, c),
             !.im = Del(@, ImageKey(c)),
             !.out = @ \o << [name |-> "creating_image_finish", timestamp |-> t,
                              user_id |-> c.userId, story_id |-> c.storyId,
                              page_type |-> c.pageType,
                              duration_ms |-> Elapsed(st.im, ImageKey(c), t)] >>
                       \o CostEvents(c, "image_generation", t)
                       \o RegenerationEvents(c, Elapsed(st.im, ImageKey(c), t), t)]

\* FirebaseAnalyticsService.trackImageGenerationError (the hook's callback has the name)
ServiceTrackImageGenerationError(st, c, t) ==
  [st EXCEPT !.im = Del(@, ImageKey(c)),
             !.out = Append(@, [name |-> "image_generation_error", timestamp |-> t,
                                user_id |-> c.userId, story_id |-> c.storyId,
                                page_type |-> c.pageType,
                                duration_ms |-> Elapsed(st.im, ImageKey(c), t)])]

trackReadingStoryStart(st, c, t) ==
  [st EXCEPT !.rs = Put(@, ReadingKey(c), t),
             !.out = Append(@, [name |-> "reading_story_start", timestamp |-> t,
                                user_id |-> c.userId, story_id |-> c.storyId])]

\* the first call for a story only records the baseline; later calls report the
\* previous page with the time spent on it
PageViewEvents(pv, c, t) ==
  IF Has(pv, c.storyId)
    THEN << [name |-> "story_page_view", timestamp |-> t, story_id |-> c.storyId,
             page_num |-> pv[c.storyId].pageNum, page_type |-> pv[c.storyId].pageType,
             duration_ms |-> t - pv[c.storyId].startTime] >>
    ELSE << >>

trackStoryPageView(st, c, t) ==
  [st EXCEPT !.pv = Put(@, c.storyId, [pageNum |-> c.pageNum, pageType |-> c.pageType,
                                       startTime |-> t]),
             !.out = @ \o PageViewEvents(st.pv, c, t)]

trackReadingStorySelectedPath(st, c, t) ==
  [st EXCEPT !.out = Append(@, [name |-> "reading_story_selected_path", timestamp |-> t,
                                user_id |-> c.userId, story_id |-> c.storyId,
                                path_type |-> c.pageType, page_num |-> c.pageNum])]

\* mutant: the session is cleared and the page-view baseline is left behind
trackReadingStoryFinishKeepsBaseline(st, c, t) ==
  IF Has(st.rs, ReadingKey(c))
    THEN [st EXCEPT !.rs = Del(@, ReadingKey(c)),
                    !.out = Append(@, [name |-> "reading_story_finish", timestamp |-> t,
                                       user_id |-> c.userId, story_id |-> c.storyId,
                                       duration_ms |-> t - st.rs[ReadingKey(c)]])]
    ELSE st

\* requires the reading session: without one the call does nothing
trackReadingStoryFinish(st, c, t) ==
  IF Has(st.rs, ReadingKey(c))
    THEN [st EXCEPT !.rs = Del(@, ReadingKey(c)),
                    !.pv = Del(@, c.storyId),
                    !.out = Append(@, [name |-> "reading_story_finish", timestamp |-> t,
                                       user_id |-> c.userId, story_id |-> c.storyId,
                                       duration_ms |-> t - st.rs[ReadingKey(c)]])]
    ELSE st

\* stateless pass-through: the event is emitted, no session is looked at
trackOpenAICost(st, c, t) ==
  [st EXCEPT !.out = Append(@, [name |-> "openai_cost", timestamp |-> t,
                                user_id |-> c.userId, operation |-> c.operation,
                                cost_usd |-> c.cost[1]])]

\* the method a call names
Apply(st, c, t) ==
  CASE c.op = "startStoryCreationSession" -> startStoryCreationSession(st, c, t)
    [] c.op = "startTitleGeneration" -> startTitleGeneration(st, c, t)
    [] c.op = "trackTitleGeneration" -> trackTitleGeneration(st, c, t)
    [] c.op = "startTextGeneration" -> startTextGeneration(st, c, t)
    [] c.op = "trackTextGeneration" -> trackTextGeneration(st, c, t)
    [] c.op = "trackStoryCreationComplete" -> trackStoryCreationComplete(st, c, t)
    [] c.op = "trackStoryCreationError" -> trackStoryCreationError(st, c, t)
    [] c.op = "startImageGeneration" -> startImageGeneration(st, c, t)
    [] c.op = "trackImageGeneration" -> trackImageGeneration(st, c, t)
    [] c.op = "trackImageGenerationError" -> ServiceTrackImageGenerationError(st, c, t)
    [] c.op = "trackReadingStoryStart" -> trackReadingStoryStart(st, c, t)
    [] c.op = "trackStoryPageView" -> trackStoryPageView(st, c, t)
    [] c.op = "trackReadingStorySelectedPath" -> trackReadingStorySelectedPath(st, c, t)
    [] c.op = "trackReadingStoryFinish" -> trackReadingStoryFinish(st, c, t)
    [] c.op = "trackOpenAICost" -> trackOpenAICost(st, c, t)

\* the calls of one callback, in order
RECURSIVE Run(_, _, _)
Run(st, calls, t) ==
  IF calls = << >> THEN st ELSE Run(Apply(st, Head(calls), t), Tail(calls), t)

(* ------------------------ useStoryAnalytics.ts ------------------------ *)
(* A callback is the sequence of service calls it forwards.  The props of  *)
(* a hook (userId, kidId, storyId) are inputs of each call of a callback:  *)
(* a callback closes over the props of the render that created it.         *)

Forward(op, userId, kidId, storyId) ==
  [NoCall EXCEPT !.op = op, !.userId = userId, !.kidId = kidId, !.storyId = storyId]

\* useStoryReadingAnalytics: [calls, started], started the value left in sessionStartedRef
\* mutant: the start is forwarded without looking at the ref
trackReadingStartUnguarded(storyId, userId, started) ==
  IF Truthy(storyId) /\ Truthy(userId)
    THEN [calls |-> << Forward("trackReadingStoryStart", userId, NULL, storyId) >>,
          started |-> TRUE]
    ELSE [calls |-> << >>, started |-> started]

trackReadingStart(storyId, userId, started) ==
  IF Truthy(storyId) /\ Truthy(userId) /\ ~started
    THEN [calls |-> << Forward("trackReadingStoryStart", userId, NULL, storyId) >>,
          started |-> TRUE]
    ELSE [calls |-> << >>, started |-> started]

\* mutant: the ending page forwards the finish and leaves the ref set
trackPageViewKeepsRef(storyId, userId, started, pageNum, pageType) ==
  IF Truthy(storyId)
    THEN LET view == [Forward("trackStoryPageView", NULL, NULL, storyId)
                        EXCEPT !.pageNum = pageNum, !.pageType = pageType]
         IN  IF pageType \in {"good", "bad"} /\ started /\ Truthy(userId)
               THEN [calls |-> << view,
                                  Forward("trackReadingStoryFinish", userId, NULL, storyId) >>,
                     started |-> started]
               ELSE [calls |-> << view >>, started |-> started]
    ELSE [calls |-> << >>, started |-> started]

\* mutant: on an ending page the finish is forwarded before the page view
trackPageViewFinishFirst(storyId, userId, started, pageNum, pageType) ==
  IF Truthy(storyId)
    THEN LET view == [Forward("trackStoryPageView", NULL, NULL, storyId)
                        EXCEPT !.pageNum = pageNum, !.pageType = pageType]
         IN  IF pageType \in {"good", "bad"} /\ started /\ Truthy(userId)
               THEN [calls |-> << Forward("trackReadingStoryFinish", userId, NULL, storyId),
                                  view >>,
                     started |-> FALSE]
               ELSE [calls |-> << view >>, started |-> started]
    ELSE [calls |-> << >>, started |-> started]

trackPageView(storyId, userId, started, pageNum, pageType) ==
  IF Truthy(storyId)
    THEN LET view == [Forward("trackStoryPageView", NULL, NULL, storyId)
                        EXCEPT !.pageNum = pageNum, !.pageType = pageType]
         IN  IF pageType \in {"good", "bad"} /\ started /\ Truthy(userId)
               THEN [calls |-> << view,
                                  Forward("trackReadingStoryFinish", userId, NULL, storyId) >>,
                     started |-> FALSE]
               ELSE [calls |-> << view >>, started |-> started]
    ELSE [calls |-> << >>, started |-> started]

\* mutant: choosing a path also ends the session
trackSelectedPathAndFinish(storyId, userId, started, pathType, pageNum) ==
  IF Truthy(storyId) /\ Truthy(userId)
    THEN [calls |-> << [Forward("trackReadingStorySelectedPath", userId, NULL, storyId)
                          EXCEPT !.pageNum = pageNum, !.pageType = pathType],
                       Forward("trackReadingStoryFinish", userId, NULL, storyId) >>,
          started |-> started]
    ELSE [calls |-> << >>, started |-> started]

trackSelectedPath(storyId, userId, started, pathType, pageNum) ==
  IF Truthy(storyId) /\ Truthy(userId)
    THEN [calls |-> << [Forward("trackReadingStorySelectedPath", userId, NULL, storyId)
                          EXCEPT !.pageNum = pageNum, !.pageType = pathType] >>,
          started |-> started]
    ELSE [calls |-> << >>, started |-> started]

\* mutant: the finish is forwarded and the ref is left set
trackStoryFinishKeepsRef(storyId, userId, started) ==
  IF Truthy(storyId) /\ Truthy(userId) /\ started
    THEN [calls |-> << Forward("trackReadingStoryFinish", userId, NULL, storyId) >>,
          started |-> TRUE]
    ELSE [calls |-> << >>, started |-> started]

trackStoryFinish(storyId, userId, started) ==
  IF Truthy(storyId) /\ Truthy(userId) /\ started
    THEN [calls |-> << Forward("trackReadingStoryFinish", userId, NULL, storyId) >>,
          started |-> FALSE]
    ELSE [calls |-> << >>, started |-> started]

\* useStoryCreationAnalytics
\* mutant: the start callback calls the title sub-timer's method
trackCreationStartWrongMethod(userId, kidId) ==
  IF Truthy(userId) /\ Truthy(kidId)
    THEN << Forward("startTitleGeneration", userId, kidId, NULL) >> ELSE << >>

trackCreationStart(userId, kidId) ==
  IF Truthy(userId) /\ Truthy(kidId)
    THEN << Forward("startStoryCreationSession", userId, kidId, NULL) >> ELSE << >>

\* mutant: the guard looks at userId alone
trackTitleGenerationStartUserOnly(userId, kidId) ==
  IF Truthy(userId)
    THEN << Forward("startTitleGeneration", userId, kidId, NULL) >> ELSE << >>

trackTitleGenerationStart(userId, kidId) ==
  IF Truthy(userId) /\ Truthy(kidId)
    THEN << Forward("startTitleGeneration", userId, kidId, NULL) >> ELSE << >>

\* mutant: the title completion is reported to the text method
trackTitleGenerationCompleteAsText(userId, kidId, cost) ==
  IF Truthy(userId) /\ Truthy(kidId)
    THEN << [Forward("trackTextGeneration", userId, kidId, NULL) EXCEPT !.cost = cost] >>
    ELSE << >>

trackTitleGenerationComplete(userId, kidId, cost) ==
  IF Truthy(userId) /\ Truthy(kidId)
    THEN << [Forward("trackTitleGeneration", userId, kidId, NULL) EXCEPT !.cost = cost] >>
    ELSE << >>

trackStoryTextGenerationStart(userId, kidId) ==
  IF Truthy(userId) /\ Truthy(kidId)
    THEN << Forward("startTextGeneration", userId, kidId, NULL) >> ELSE << >>

trackStoryTextGenerationComplete(userId, kidId, cost) ==
  IF Truthy(userId) /\ Truthy(kidId)
    THEN << [Forward("trackTextGeneration", userId, kidId, NULL) EXCEPT !.cost = cost] >>
    ELSE << >>

\* mutant: userId and kidId passed in each other's position
trackCreationCompleteSwapped(userId, kidId, storyId) ==
  IF Truthy(userId) /\ Truthy(kidId)
    THEN << Forward("trackStoryCreationComplete", kidId, userId, storyId) >> ELSE << >>

trackCreationComplete(userId, kidId, storyId) ==
  IF Truthy(userId) /\ Truthy(kidId)
    THEN << Forward("trackStoryCreationComplete", userId, kidId, storyId) >> ELSE << >>

\* mutant: the error callback reports a completion
trackCreationErrorAsComplete(userId, kidId) ==
  IF Truthy(userId) /\ Truthy(kidId)
    THEN << Forward("trackStoryCreationComplete", userId, kidId, NULL) >> ELSE << >>

trackCreationError(userId, kidId) ==
  IF Truthy(userId) /\ Truthy(kidId)
    THEN << Forward("trackStoryCreationError", userId, kidId, NULL) >> ELSE << >>

\* useImageGenerationAnalytics
trackImageGenerationStart(userId, storyId, pageType, isRegeneration) ==
  IF Truthy(userId) /\ Truthy(storyId)
    THEN << [Forward("startImageGeneration", userId, NULL, storyId)
               EXCEPT !.pageType = pageType, !.isRegeneration = isRegeneration] >>
    ELSE << >>

\* mutant: kidId is not passed on
trackImageGenerationCompleteNoKid(userId, storyId, kidId, pageType, cost, isRegeneration) ==
  IF Truthy(userId) /\ Truthy(storyId)
    THEN << [Forward("trackImageGeneration", userId, NULL, storyId)
               EXCEPT !.pageType = pageType, !.cost = cost,
                      !.isRegeneration = isRegeneration] >>
    ELSE << >>

trackImageGenerationComplete(userId, storyId, kidId, pageType, cost, isRegeneration) ==
  IF Truthy(userId) /\ Truthy(storyId)
    THEN << [Forward("trackImageGeneration", userId, kidId, storyId)
               EXCEPT !.pageType = pageType, !.cost = cost,
                      !.isRegeneration = isRegeneration] >>
    ELSE << >>

trackImageGenerationError(userId, storyId, pageType, isRegeneration) ==
  IF Truthy(userId) /\ Truthy(storyId)
    THEN << [Forward("trackImageGenerationError", userId, NULL, storyId)
               EXCEPT !.pageType = pageType, !.isRegeneration = isRegeneration] >>
    ELSE << >>

(* ------------------------------ history ------------------------------- *)
(* What the callers asked for, kept apart from the registries: per session *)
(* kind and key, the time of the latest start and the costs supplied       *)
(* since, until a complete, error or finish for that key.                  *)
CreationOps == {"startStoryCreationSession", "trackStoryCreationComplete",
                "trackStoryCreationError", "trackTitleGeneration", "trackTextGeneration"}
ReadingOps == {"trackReadingStoryStart", "trackReadingStoryFinish"}
ImageOps == {"startImageGeneration", "trackImageGeneration", "trackImageGenerationError"}
StartOps == {"startStoryCreationSession", "trackReadingStoryStart", "startImageGeneration"}
EndOps == {"trackStoryCreationComplete", "trackStoryCreationError",
           "trackReadingStoryFinish", "trackImageGeneration", "trackImageGenerationError"}

\* the session a start or end call is about
SessionOf(c) ==
  CASE c.op \in CreationOps -> <<"creation", CreationKey(c)>>
    [] c.op \in ReadingOps -> <<"reading", ReadingKey(c)>>
    [] c.op \in ImageOps -> <<"image", ImageKey(c)>>

Supplied(h, k, bucket, cost) ==
  IF Has(h, k) THEN [h EXCEPT ![k][bucket] = @ + CostOrZero(cost)] ELSE h

Started(h, c, t) ==
  Put(h, SessionOf(c), [startTime |-> t, title |-> 0, text |-> 0, image |-> 0])

\* the sessions that were still started when a start among `calls` came for them
Restarted(h, calls) ==
  {SessionOf(calls[i]) : i \in {j \in 1..Len(calls) : /\ calls[j].op \in StartOps
                                                      /\ Has(h, SessionOf(calls[j]))}}

Recorded(h, c, t) ==
  CASE c.op \in StartOps -> Started(h, c, t)
    [] c.op = "trackTitleGeneration" -> Supplied(h, SessionOf(c), "title", c.cost)
    [] c.op = "trackTextGeneration" -> Supplied(h, SessionOf(c), "text", c.cost)
    [] c.op = "trackImageGeneration" ->
         Del(IF c.kidId # NULL
               THEN Supplied(h, <<"creation", CreationKey(c)>>, "image", c.cost)
               ELSE h,
             SessionOf(c))
    [] c.op \in EndOps \ {"trackImageGeneration"} -> Del(h, SessionOf(c))
    [] OTHER -> h

RECURSIVE RecordedAll(_, _, _)
RecordedAll(h, calls, t) ==
  IF calls = << >> THEN h ELSE RecordedAll(Recorded(h, Head(calls), t), Tail(calls), t)

Count(calls, op) == Cardinality({i \in 1..Len(calls) : calls[i].op = op})

\* the hook has no forwarded start waiting for its finish
NoKey == << >>

\* the key of the forwarded start that is still waiting for its finish, after `calls`
RECURSIVE StartedKeyAfter(_, _)
StartedKeyAfter(k, calls) ==
  IF calls = << >> THEN k
  ELSE StartedKeyAfter(CASE Head(calls).op = "trackReadingStoryStart" ->
                              ReadingKey(Head(calls))
                         [] Head(calls).op = "trackReadingStoryFinish" -> NoKey
                         [] OTHER -> k,
                       Tail(calls))

(* ------------------------------ actions ------------------------------- *)
NoCaller == [layer |-> "none", name |-> "none"]

\* the dialog as mounted: closed, fields empty, nothing submitted
IdleDialog ==
  [problem |-> << >>, advantages |-> << >>, disadvantages |-> << >>,
   isOpen |-> FALSE, isGenerating |-> FALSE, pc |-> "idle", ran |-> "none",
   request |-> << >>, trace |-> << >>]

\* the state after construction, the reader mounted for one of `stories`
InitWith(stories) ==
  /\ workflow \in Workflows
  /\ now = 0
  /\ creationSessions = EmptyMap
  /\ titleGenStart = EmptyMap
  /\ textGenStart = EmptyMap
  /\ imageSessions = EmptyMap
  /\ readingSessions = EmptyMap
  /\ pageViews = EmptyMap
  /\ sessionStartedRef = FALSE
  /\ creationProps \in [userId : IF workflow = "creation" THEN HookUserIds ELSE {NULL},
                        kidId : IF workflow = "creation" THEN HookKidIds ELSE {NULL}]
  \* both hooks of the creation page are given the signed-in user
  /\ imageProps \in [userId : {creationProps.userId},
                     storyId : IF workflow = "creation" THEN HookStoryIds ELSE {NULL},
                     kidId : IF workflow = "creation" THEN HookKidIds \cup OtherKidIds
                                                          ELSE {NULL}]
  /\ readingProps \in [storyId : IF workflow = "reading" THEN stories ELSE {NULL},
                       userId : IF workflow = "reading" THEN HookUserIds ELSE {NULL}]
  /\ call = NoCaller
  /\ invoked = << >>
  /\ emitted = << >>
  /\ repeated = FALSE
  /\ restarted = {}
  /\ pending = 0
  /\ startedKey = NoKey
  /\ history = EmptyMap
  /\ env \in [NODE_ENV : IF workflow = "verify" THEN NodeEnvValues ELSE {UNSET},
               printed : {<< >>}]
  /\ kids \in [firebaseUser : IF workflow = "account" THEN BOOLEAN ELSE {FALSE},
                uid : {NULL}, isFetchingUserData : {FALSE}, isLoadingKids : {FALSE},
                lastFetched : {<< >>}, clock : {1}, advances : {0},
                ran : {"none"}, called : {<< >>}]
  /\ dialog = IdleDialog

Init == InitWith(HookStoryIds)

\* Date.now() moves on between two callbacks; nothing is called, nothing emitted
Tick ==
  /\ workflow \in AnalyticsWorkflows
  /\ now < MaxTime
  /\ now' = now + 1
  /\ call' = [layer |-> "clock", name |-> "tick"]
  /\ invoked' = << >>
  /\ emitted' = << >>
  /\ repeated' = FALSE
  /\ restarted' = {}
  /\ UNCHANGED <<workflow, trackerVars, hookVars, pending, startedKey, history, appVars>>

WithinBounds(b) == b.title <= MaxCost /\ b.text <= MaxCost /\ b.image <= MaxCost

\* one callback (or one direct use of the service) that makes `calls`
Step(layer, name, calls, started) ==
  LET st == Run(Tracker, calls, now) IN
  /\ \A k \in DOMAIN st.cs : WithinBounds(Breakdown(st.cs, k))
  /\ creationSessions' = st.cs
  /\ titleGenStart' = st.tg
  /\ textGenStart' = st.xg
  /\ imageSessions' = st.im
  /\ readingSessions' = st.rs
  /\ pageViews' = st.pv
  /\ emitted' = st.out
  /\ invoked' = calls
  /\ call' = [layer |-> layer, name |-> name]
  /\ sessionStartedRef' = started
  /\ repeated' = (/\ call = [layer |-> layer, name |-> name]
                  /\ name \in {"trackStoryFinish", "trackReadingStoryFinish"}
                  /\ emitted # << >>)
  /\ restarted' = Restarted(history, calls)
  /\ pending' = IF layer = "hook"
                  THEN pending + Count(calls, "trackReadingStoryStart")
                               - Count(calls, "trackReadingStoryFinish")
                  ELSE pending
  /\ startedKey' = IF layer = "hook" THEN StartedKeyAfter(startedKey, calls)
                                     ELSE startedKey
  /\ history' = RecordedAll(history, calls, now)
  /\ UNCHANGED <<workflow, now, creationProps, imageProps, readingProps, appVars>>

CreationStep(name, calls) ==
  /\ workflow = "creation"
  /\ Step("hook", name, calls, sessionStartedRef)

ReadingStep(name, r) ==
  /\ workflow = "reading"
  /\ Step("hook", name, r.calls, r.started)

HookCreationStart ==
  CreationStep("trackCreationStart",
               trackCreationStart(creationProps.userId, creationProps.kidId))

HookTitleGenerationStart ==
  CreationStep("trackTitleGenerationStart",
               trackTitleGenerationStart(creationProps.userId, creationProps.kidId))

HookTitleGenerationComplete ==
  \E cost \in OptCosts :
    CreationStep("trackTitleGenerationComplete",
                 trackTitleGenerationComplete(creationProps.userId, creationProps.kidId, cost))

HookStoryTextGenerationStart ==
  CreationStep("trackStoryTextGenerationStart",
               trackStoryTextGenerationStart(creationProps.userId, creationProps.kidId))

HookStoryTextGenerationComplete ==
  \E cost \in OptCosts :
    CreationStep("trackStoryTextGenerationComplete",
                 trackStoryTextGenerationComplete(creationProps.userId, creationProps.kidId,
                                                  cost))

HookCreationComplete ==
  \E s \in StoryIds :
    CreationStep("trackCreationComplete",
                 trackCreationComplete(creationProps.userId, creationProps.kidId, s))

HookCreationError ==
  CreationStep("trackCreationError",
               trackCreationError(creationProps.userId, creationProps.kidId))

HookImageGenerationStart ==
  \E pt \in ImagePageTypes, regen \in BOOLEAN :
    CreationStep("trackImageGenerationStart",
                 trackImageGenerationStart(imageProps.userId, imageProps.storyId, pt, regen))

HookImageGenerationComplete ==
  \E pt \in ImagePageTypes, cost \in OptCosts, regen \in BOOLEAN :
    CreationStep("trackImageGenerationComplete",
                 trackImageGenerationComplete(imageProps.userId, imageProps.storyId,
                                              imageProps.kidId, pt, cost, regen))

HookImageGenerationError ==
  \E pt \in ImagePageTypes, regen \in BOOLEAN :
    CreationStep("trackImageGenerationError",
                 trackImageGenerationError(imageProps.userId, imageProps.storyId, pt, regen))

HookReadingStart ==
  ReadingStep("trackReadingStart",
              trackReadingStart(readingProps.storyId, readingProps.userId,
                                sessionStartedRef))

HookPageView ==
  \E n \in 1..MaxPage, pt \in ReadPageTypes :
    ReadingStep("trackPageView",
                trackPageView(readingProps.storyId, readingProps.userId,
                              sessionStartedRef, n, pt))

HookSelectedPath ==
  \E path \in PathTypes, n \in 1..MaxPage :
    ReadingStep("trackSelectedPath",
                trackSelectedPath(readingProps.storyId, readingProps.userId,
                                  sessionStartedRef, path, n))

HookStoryFinish ==
  ReadingStep("trackStoryFinish",
              trackStoryFinish(readingProps.storyId, readingProps.userId,
                               sessionStartedRef))

\* the reader component renders again with other props; the ref survives
Rerender(stories) ==
  /\ workflow = "reading"
  /\ readingProps' \in [storyId : stories, userId : HookUserIds]
  /\ readingProps' # readingProps
  /\ call' = [layer |-> "react", name |-> "render"]
  /\ invoked' = << >>
  /\ emitted' = << >>
  /\ repeated' = FALSE
  /\ restarted' = {}
  /\ UNCHANGED <<workflow, now, trackerVars, sessionStartedRef, creationProps, imageProps,
                 pending, startedKey, history, appVars>>

ReadingRerender == Rerender(HookStoryIds)

\* the same, and the reader may be navigated to another story while it stays mounted
ReaderNavigates == Rerender(HookStoryIds \cup OtherStoryIds)

(* Direct use of the service (API routes, server side): the two reading    *)
(* methods the hook forwards only behind sessionStartedRef.  The other     *)
(* callbacks forward whenever their identifiers are present, so they       *)
(* already make every call a direct use could make.                        *)
ServiceStep(c) ==
  /\ workflow = "reading"
  /\ Step("service", c.op, << c >>, sessionStartedRef)

ServiceReadingStoryStart ==
  \E s \in StoryIds, u \in UserIds :
    ServiceStep(Forward("trackReadingStoryStart", u, NULL, s))

ServiceReadingStoryFinish ==
  \E s \in StoryIds, u \in UserIds :
    ServiceStep(Forward("trackReadingStoryFinish", u, NULL, s))

\* a cost reported straight to the service, from either page
ServiceOpenAICost ==
  /\ workflow \in AnalyticsWorkflows
  /\ \E u \in UserIds, o \in CostOperations, c \in {MaxCost} :
       Step("service", "trackOpenAICost",
            << [Forward("trackOpenAICost", u, NULL, NULL)
                  EXCEPT !.operation = o, !.cost = << c >>] >>,
            sessionStartedRef)

(* ----------------------- verify-environment.js ------------------------ *)
\* `process.env.NODE_ENV || 'development'`
nodeEnv(v) == IF v = UNSET \/ v = "" THEN "development" ELSE v

\* mutant: the collections are named after NODE_ENV itself, users_{NODE_ENV}
firebaseEnvIsNodeEnv(v) == nodeEnv(v)

\* `nodeEnv === 'production' ? 'production' : 'development'`
firebaseEnv(v) == IF nodeEnv(v) = "production" THEN "production" ELSE "development"

\* the collection names of the summary, each a base name and its suffix
Collections(v) ==
  << <<"accounts", firebaseEnv(v)>>, <<"users", firebaseEnv(v)>>,
     <<"stories_gen", firebaseEnv(v)>> >>

\* the script runs once, top to bottom
VerifyEnvironment ==
  /\ workflow = "verify"
  /\ env.printed = << >>
  /\ env' = [env EXCEPT !.printed = Collections(env.NODE_ENV)]
  /\ UNCHANGED <<analyticsVars, kids, dialog>>

(* ------------------------------ useUserData --------------------------- *)
\* `number | null`: null is << >>, a time t is <<t>>; `!kidsLastFetched` holds of null and 0
NeverFetched == << >>
Falsy(kidsLastFetched) == kidsLastFetched = NeverFetched \/ kidsLastFetched[1] = 0

\* mutant: data fetched exactly five minutes ago counts as stale
shouldFetchKidsAtFiveMinutes(uid, kidsLastFetched, t) ==
  /\ Truthy(uid)
  /\ (Falsy(kidsLastFetched) \/ t - kidsLastFetched[1] >= StaleMs)

\* `userData?.uid && (!kidsLastFetched || Date.now() - kidsLastFetched > 5 * 60 * 1000)`
shouldFetchKids(uid, kidsLastFetched, t) ==
  /\ Truthy(uid)
  /\ (Falsy(kidsLastFetched) \/ t - kidsLastFetched[1] > StaleMs)

\* the calls of the auto-fetch effect, in order
AutoFetch(k) ==
  (IF k.firebaseUser /\ ~Truthy(k.uid) /\ ~k.isFetchingUserData
     THEN << [fn |-> "fetchUserData", arg |-> "firebaseUser"] >> ELSE << >>)
  \o (IF shouldFetchKids(k.uid, k.lastFetched, k.clock)
        THEN << [fn |-> "fetchKids", arg |-> k.uid] >> ELSE << >>)

\* the calls of refreshKids
refreshKids(k) ==
  IF Truthy(k.uid) THEN << [fn |-> "fetchKids", arg |-> k.uid] >>
                   ELSE << [fn |-> "console.warn", arg |-> NULL] >>

CallsNamed(calls, fn) == SelectSeq(calls, LAMBDA c : c.fn = fn)

\* the stores (not among the source files) mark a fetch they were asked for as running
AccountStep(name, calls) ==
  /\ workflow = "account"
  /\ kids' = [kids EXCEPT
       !.ran = name,
       !.called = calls,
       !.isFetchingUserData = @ \/ CallsNamed(calls, "fetchUserData") # << >>,
       !.isLoadingKids = @ \/ CallsNamed(calls, "fetchKids") # << >>]
  /\ UNCHANGED <<analyticsVars, env, dialog>>

\* the effect runs after a render
AutoFetchEffect == AccountStep("effect", AutoFetch(kids))

RefreshKids == AccountStep("refreshKids", refreshKids(kids))

\* fetchUserData settles: the user store holds the userData, or the fetch failed
UserDataSettles ==
  /\ workflow = "account"
  /\ kids.isFetchingUserData
  /\ \E uid \in UserIds \cup {NULL} :
       kids' = [kids EXCEPT !.uid = uid, !.isFetchingUserData = FALSE,
                            !.ran = "userData", !.called = << >>]
  /\ UNCHANGED <<analyticsVars, env, dialog>>

\* fetchKids settles: the kids store records the time of a fetch that succeeded
KidsSettle ==
  /\ workflow = "account"
  /\ kids.isLoadingKids
  /\ \E ok \in BOOLEAN :
       kids' = [kids EXCEPT !.lastFetched = IF ok THEN << kids.clock >> ELSE @,
                            !.isLoadingKids = FALSE,
                            !.ran = "kids", !.called = << >>]
  /\ UNCHANGED <<analyticsVars, env, dialog>>

AccountClock ==
  /\ workflow = "account"
  /\ kids.advances < MaxAdvances
  /\ \E d \in ClockSteps :
       kids' = [kids EXCEPT !.clock = @ + d, !.advances = @ + 1,
                            !.ran = "clock", !.called = << >>]
  /\ UNCHANGED <<analyticsVars, env, dialog>>

(* -------------------------- QuickGenerateDialog ----------------------- *)
\* String.prototype.trim: the blanks at both ends are dropped
RECURSIVE trimStart(_)
trimStart(s) == IF s # << >> /\ Head(s) = " " THEN trimStart(Tail(s)) ELSE s

RECURSIVE trimEnd(_)
trimEnd(s) ==
  IF s # << >> /\ s[Len(s)] = " " THEN trimEnd(SubSeq(s, 1, Len(s) - 1)) ELSE s

trim(s) == trimEnd(trimStart(s))

\* mutant: the input is tested without trimming, `!problem`
IsBlankUntrimmed(problem) == problem = << >>

\* `!problem.trim()`
IsBlank(problem) == trim(problem) = << >>

\* `advantages || undefined`
OrUndefined(text) == IF text = << >> THEN UNSET ELSE text

Did(ev, arg) == [ev |-> ev, arg |-> arg]

\* what the catch block does
Caught == << Did("onGeneratingChange", "false"), Did("toast", "Generation Failed") >>

\* handleSubmit up to its first await
handleSubmit(d) ==
  IF IsBlank(d.problem)
    THEN [d EXCEPT !.ran = "handleSubmit",
                   !.trace = << Did("toast", "inputRequired") >>]
    ELSE [d EXCEPT !.ran = "handleSubmit",
                   !.isOpen = FALSE,
                   !.isGenerating = TRUE,
                   !.pc = "generateFullStory",
                   !.request = << d.problem, OrUndefined(d.advantages),
                                  OrUndefined(d.disadvantages) >>,
                   !.trace = << Did("setIsOpen", "false"),
                                Did("onGeneratingChange", "true"),
                                Did("toast", "Story Generation Started"),
                                Did("generateFullStory", "called") >>]

\* handleSubmit after generateFullStory settled
afterGenerate(d, resolved) ==
  IF resolved
    THEN [d EXCEPT !.ran = "generateSettles", !.pc = "getStoryById",
                   !.trace = @ \o << Did("generateFullStory", "resolved"),
                                     Did("getStoryById", "called") >>]
    ELSE [d EXCEPT !.ran = "generateSettles", !.pc = "idle", !.isGenerating = FALSE,
                   !.trace = @ \o << Did("generateFullStory", "rejected") >> \o Caught]

\* the ways getStoryById and the parent's onStoryCreated can end
FetchOutcomes == {"story", "no story", "rejected", "onStoryCreated throws"}

\* handleSubmit after getStoryById settled
afterFetch(d, outcome) ==
  CASE outcome = "rejected" ->
         [d EXCEPT !.ran = "fetchSettles", !.pc = "idle", !.isGenerating = FALSE,
                   !.trace = @ \o << Did("getStoryById", "rejected") >> \o Caught]
    [] outcome = "onStoryCreated throws" ->
         [d EXCEPT !.ran = "fetchSettles", !.pc = "idle", !.isGenerating = FALSE,
                   !.trace = @ \o << Did("getStoryById", "resolved"),
                                     Did("onStoryCreated", "threw") >> \o Caught]
    [] OTHER ->
         [d EXCEPT !.ran = "fetchSettles", !.pc = "idle", !.isGenerating = FALSE,
                   !.problem = << >>, !.advantages = << >>, !.disadvantages = << >>,
                   !.trace = @ \o << Did("getStoryById", "resolved") >>
                               \o (IF outcome = "story"
                                     THEN << Did("onStoryCreated", "returned") >>
                                     ELSE << >>)
                               \o << Did("toast", "Success!"),
                                     Did("setProblem", "cleared"),
                                     Did("onGeneratingChange", "false") >>]

DialogStep(d) ==
  /\ workflow = "dialog"
  /\ dialog' = d
  /\ UNCHANGED <<analyticsVars, env, kids>>

\* the trigger is disabled while the parent says a story is generating
DialogOpens ==
  /\ ~dialog.isOpen /\ ~dialog.isGenerating
  /\ DialogStep([dialog EXCEPT !.isOpen = TRUE, !.ran = "open"])

\* the fields are typed into
DialogTypes ==
  /\ dialog.isOpen
  /\ \E p \in Texts, a \in OptTexts, b \in OptTexts :
       /\ <<p, a, b>> # <<dialog.problem, dialog.advantages, dialog.disadvantages>>
       /\ DialogStep([dialog EXCEPT !.problem = p, !.advantages = a,
                                    !.disadvantages = b, !.ran = "type"])

\* the handler is called on the open dialog (the button itself is disabled while
\* the problem is blank)
DialogSubmits ==
  /\ dialog.isOpen /\ dialog.pc = "idle"
  /\ DialogStep(handleSubmit(dialog))

GenerateSettles ==
  /\ dialog.pc = "generateFullStory"
  /\ \E resolved \in BOOLEAN : DialogStep(afterGenerate(dialog, resolved))

FetchSettles ==
  /\ dialog.pc = "getStoryById"
  /\ \E outcome \in FetchOutcomes : DialogStep(afterFetch(dialog, outcome))

Next ==
  \/ Tick
  \/ ServiceOpenAICost
  \/ HookCreationStart
  \/ HookTitleGenerationStart
  \/ HookTitleGenerationComplete
  \/ HookStoryTextGenerationStart
  \/ HookStoryTextGenerationComplete
  \/ HookCreationComplete
  \/ HookCreationError
  \/ HookImageGenerationStart
  \/ HookImageGenerationComplete
  \/ HookImageGenerationError
  \/ HookReadingStart
  \/ HookPageView
  \/ HookSelectedPath
  \/ HookStoryFinish
  \/ ReadingRerender
  \/ ServiceReadingStoryStart
  \/ ServiceReadingStoryFinish
  \/ VerifyEnvironment
  \/ AutoFetchEffect
  \/ RefreshKids
  \/ UserDataSettles
  \/ KidsSettle
  \/ AccountClock
  \/ DialogOpens
  \/ DialogTypes
  \/ DialogSubmits
  \/ GenerateSettles
  \/ FetchSettles

Spec == Init /\ [][Next]_vars

\* the account page alone
AccountInit == Init /\ workflow = "account"

AccountNext ==
  \/ AutoFetchEffect
  \/ RefreshKids
  \/ UserDataSettles
  \/ KidsSettle
  \/ AccountClock

AccountSpec == AccountInit /\ [][AccountNext]_vars

\* the dialog alone; a remote call that was made settles
DialogInit == Init /\ workflow = "dialog"

DialogNext ==
  \/ DialogOpens
  \/ DialogTypes
  \/ DialogSubmits
  \/ GenerateSettles
  \/ FetchSettles

DialogSpec ==
  DialogInit /\ [][DialogNext]_vars /\ WF_vars(GenerateSettles) /\ WF_vars(FetchSettles)

\* the story reader alone: the behaviours of Spec that run the reading page
ReadingInit == Init /\ workflow = "reading"

ReadingNext ==
  \/ Tick
  \/ ServiceOpenAICost
  \/ HookReadingStart
  \/ HookPageView
  \/ HookSelectedPath
  \/ HookStoryFinish
  \/ ReadingRerender
  \/ ServiceReadingStoryStart
  \/ ServiceReadingStoryFinish

ReadingSpec == ReadingInit /\ [][ReadingNext]_vars

\* the story reader with two stories to show
NavigationInit == InitWith(HookStoryIds \cup OtherStoryIds) /\ workflow = "reading"

NavigationNext ==
  \/ Tick
  \/ ServiceOpenAICost
  \/ HookReadingStart
  \/ HookPageView
  \/ HookSelectedPath
  \/ HookStoryFinish
  \/ ReaderNavigates
  \/ ServiceReadingStoryStart
  \/ ServiceReadingStoryFinish

NavigationSpec == NavigationInit /\ [][NavigationNext]_vars

(* ============================== claims ================================ *)
EventsNamed(events, name) == SelectSeq(events, LAMBDA e : e.name = name)
CallsOf(calls, op) == SelectSeq(calls, LAMBDA c : c.op = op)
\* events that report a duration
TimedEvents == {"title_generation", "creating_text_finish", "story_creation_complete",
                "story_creation_error", "creating_image_finish", "image_regeneration",
                "image_generation_error", "story_page_view", "reading_story_finish"}
Durations(events) ==
  {events[i].duration_ms : i \in {j \in 1..Len(events) : events[j].name \in TimedEvents}}

CreationPropsPresent == Truthy(creationProps.userId) /\ Truthy(creationProps.kidId)
CreationPropsKey == <<creationProps.userId, creationProps.kidId>>
CreationPropsSession == <<"creation", CreationPropsKey>>
ImagePropsPresent == Truthy(imageProps.userId) /\ Truthy(imageProps.storyId)
ReadingPropsPresent == Truthy(readingProps.storyId) /\ Truthy(readingProps.userId)
ReadingPropsKey == <<readingProps.storyId, readingProps.userId>>

(* C1: a creation session that was started and then completed, with any    *)
(* title, text and image completions carrying costs in between, emits one  *)
(* story_creation_complete event with duration_ms >= 0 and one             *)
(* story_creation_cost event whose breakdown is the costs supplied since   *)
(* the start and whose total is their sum.                                 *)
C1_CompleteReportsCostSum ==
  [][ (call'.name = "trackCreationComplete" /\ CreationPropsPresent
       /\ Has(history, CreationPropsSession))
      => LET h == history[CreationPropsSession]
             done == EventsNamed(emitted', "story_creation_complete")
             cost == EventsNamed(emitted', "story_creation_cost")
         IN  /\ Len(done) = 1
             /\ done[1].user_id = creationProps.userId
             /\ done[1].kid_id = creationProps.kidId
             /\ done[1].duration_ms >= 0
             /\ Len(cost) = 1
             /\ cost[1].user_id = creationProps.userId
             /\ cost[1].kid_id = creationProps.kidId
             /\ cost[1].title_generation_cost = h.title
             /\ cost[1].story_text_cost = h.text
             /\ cost[1].image_generation_cost = h.image
             /\ cost[1].total_cost_usd = h.title + h.text + h.image ]_vars

\* a completion that reports a positive duration and a cost in every bucket
C1_Witness ==
  /\ call.name = "trackCreationComplete"
  /\ Len(emitted) = 2
  /\ emitted[1].name = "story_creation_complete" /\ emitted[1].duration_ms > 0
  /\ emitted[2].name = "story_creation_cost"
  /\ emitted[2].title_generation_cost > 0
  /\ emitted[2].story_text_cost > 0
  /\ emitted[2].image_generation_cost > 0
  /\ emitted[2].total_cost_usd = 3 * MaxCost

(* C2: a complete or error operation (creation, title, text, image) for a  *)
(* key whose session or sub-timer is absent still runs and reports a       *)
(* duration of 0, and no emitted event ever carries a negative duration.   *)
AbsentFor(c) ==
  CASE c.op \in {"trackStoryCreationComplete", "trackStoryCreationError"} ->
         ~Has(creationSessions, CreationKey(c))
    [] c.op = "trackTitleGeneration" -> ~Has(titleGenStart, CreationKey(c))
    [] c.op = "trackTextGeneration" -> ~Has(textGenStart, CreationKey(c))
    [] c.op \in {"trackImageGeneration", "trackImageGenerationError"} ->
         ~Has(imageSessions, ImageKey(c))
    [] OTHER -> FALSE

C2_MissingSessionReportsZero ==
  [][ /\ \A d \in Durations(emitted') : d >= 0
      /\ (Len(invoked') = 1 /\ AbsentFor(invoked'[1]))
           => /\ Durations(emitted') = {0}
              /\ \A k \in DOMAIN creationSessions' : Has(creationSessions, k) ]_vars

\* completeCreationSession with no session: the events are there, with duration 0
C2_Witness ==
  /\ call.name = "trackCreationComplete"
  /\ Len(emitted) = 2
  /\ emitted[1].name = "story_creation_complete" /\ emitted[1].duration_ms = 0
  /\ now > 0
  /\ history = EmptyMap

(* C3: a second start for a key that already has a session overwrites it:  *)
(* after the start the registry holds the key with the time of that start, *)
(* and the completion, error or finish that follows reports the time       *)
(* elapsed since the latest start.                                         *)
StartOf(c) ==
  CASE c.op = "startStoryCreationSession" -> creationSessions'[CreationKey(c)].startTime
    [] c.op = "trackReadingStoryStart" -> readingSessions'[ReadingKey(c)]
    [] c.op = "startImageGeneration" -> imageSessions'[ImageKey(c)]

RegistryOf(c) ==
  CASE c.op \in CreationOps -> DOMAIN creationSessions'
    [] c.op \in ReadingOps -> DOMAIN readingSessions'
    [] c.op \in ImageOps -> DOMAIN imageSessions'

EndEvent(c) ==
  CASE c.op = "trackStoryCreationComplete" -> "story_creation_complete"
    [] c.op = "trackStoryCreationError" -> "story_creation_error"
    [] c.op = "trackReadingStoryFinish" -> "reading_story_finish"
    [] c.op = "trackImageGeneration" -> "creating_image_finish"
    [] c.op = "trackImageGenerationError" -> "image_generation_error"

C3_SecondStartOverwrites ==
  [][ /\ (call'.name = "trackCreationStart" /\ CreationPropsPresent)
           => /\ Has(creationSessions', CreationPropsKey)
              /\ creationSessions'[CreationPropsKey].startTime = now
      /\ \A i \in 1..Len(invoked') :
           LET c == invoked'[i] IN
           /\ c.op \in StartOps
                => SessionOf(c)[2] \in RegistryOf(c) /\ StartOf(c) = now
           /\ (c.op \in EndOps /\ Has(history, SessionOf(c)))
                => LET e == EventsNamed(emitted', EndEvent(c))
                   IN  Len(e) = 1 /\ e[1].duration_ms = now - history[SessionOf(c)].startTime
    ]_vars

\* a creation session started again, later than its first start
C3_Witness ==
  /\ call.name = "trackCreationStart"
  /\ CreationPropsSession \in restarted
  /\ creationSessions[CreationPropsKey].startTime = now
  /\ now > 0
  /\ Has(titleGenStart, CreationPropsKey) /\ titleGenStart[CreationPropsKey] < now

(* C4: errorCreationSession leaves no creation session for (userId, kidId)  *)
(* in the registry whether or not one existed, it reports an error and no   *)
(* completion, and a story_creation_complete emitted afterwards never       *)
(* speaks for the removed session: only a completion call emits it, and     *)
(* with no start since the error it reports duration 0 and no cost.         *)
C4_ErrorRemovesSession ==
  [][ /\ (call'.name = "trackCreationError" /\ CreationPropsPresent)
           => /\ ~Has(creationSessions', CreationPropsKey)
              /\ Len(EventsNamed(emitted', "story_creation_error")) = 1
              /\ EventsNamed(emitted', "story_creation_complete") = << >>
              /\ EventsNamed(emitted', "story_creation_cost") = << >>
      /\ EventsNamed(emitted', "story_creation_complete") # << >>
           => call'.name = "trackCreationComplete"
      /\ (call'.name = "trackCreationComplete" /\ CreationPropsPresent
          /\ ~Has(history, CreationPropsSession))
           => /\ \A i \in 1..Len(emitted') :
                   /\ emitted'[i].name = "story_creation_complete"
                        => emitted'[i].duration_ms = 0
                   /\ emitted'[i].name = "story_creation_cost"
                        => emitted'[i].total_cost_usd = 0
              /\ ~Has(creationSessions', CreationPropsKey) ]_vars

\* an error for a session that was started earlier and had a cost: it is gone
C4_Witness ==
  /\ call.name = "trackCreationError"
  /\ Len(emitted) = 1
  /\ emitted[1].name = "story_creation_error" /\ emitted[1].duration_ms > 0
  /\ ~Has(creationSessions, CreationPropsKey)
  /\ ~Has(history, CreationPropsSession)

(* C5: finishing the same reading session twice in a row emits             *)
(* reading_story_finish once: the second call, through the hook or straight *)
(* at the tracker, forwards nothing new, emits no event and leaves no       *)
(* session, no page-view baseline and no started mark behind.               *)
C5_SecondFinishIsNoOp ==
  [][ /\ Len(EventsNamed(emitted', "reading_story_finish")) <= 1
      /\ repeated'
           => /\ emitted' = << >>
              /\ UNCHANGED <<readingSessions, pageViews, creationSessions, titleGenStart,
                             textGenStart, imageSessions, sessionStartedRef>>
              /\ call'.layer = "hook" => invoked' = << >>
              /\ call'.layer = "hook" /\ ReadingPropsPresent => ~sessionStartedRef'
              /\ call'.layer = "service"
                   => /\ Len(invoked') = 1
                      /\ ~Has(readingSessions', ReadingKey(invoked'[1])) ]_vars

\* the second of two finishes in a row, after some reading
C5_Witness ==
  /\ repeated
  /\ call.name = "trackStoryFinish"
  /\ ReadingPropsPresent
  /\ emitted = << >> /\ invoked = << >>
  /\ now > 0
  /\ readingSessions = EmptyMap

(* C6: for one story the first trackPageView only records the baseline and  *)
(* emits nothing; every later one emits exactly one story_page_view event   *)
(* that describes the previous page, with the time since that page was      *)
(* recorded, which is never negative; the new page becomes the baseline.    *)
C6_PageViewReportsPreviousPage ==
  [][ LET views == CallsOf(invoked', "trackStoryPageView")
          ev == EventsNamed(emitted', "story_page_view")
      IN  /\ views = << >> => ev = << >>
          /\ (call'.name = "trackPageView" /\ Truthy(readingProps.storyId))
               => Len(views) = 1 /\ views[1].storyId = readingProps.storyId
          /\ views # << >>
               => LET s == views[1].storyId IN
                  /\ Len(views) = 1
                  /\ IF Has(pageViews, s)
                       THEN /\ Len(ev) = 1
                            /\ ev[1].story_id = s
                            /\ ev[1].page_num = pageViews[s].pageNum
                            /\ ev[1].page_type = pageViews[s].pageType
                            /\ ev[1].duration_ms = now - pageViews[s].startTime
                            /\ ev[1].duration_ms >= 0
                       ELSE ev = << >>
                  /\ Len(invoked') = 1
                       => /\ Has(pageViews', s)
                          /\ pageViews'[s] = [pageNum |-> views[1].pageNum,
                                              pageType |-> views[1].pageType,
                                              startTime |-> now] ]_vars

\* the second of two page views: page MaxPage is reported while page 1 is recorded
C6_Witness ==
  /\ call.name = "trackPageView"
  /\ Len(invoked) = 1 /\ invoked[1].pageNum = 1
  /\ Len(emitted) = 1
  /\ emitted[1].name = "story_page_view"
  /\ emitted[1].page_num = MaxPage
  /\ emitted[1].duration_ms > 0
  /\ Has(pageViews, invoked[1].storyId)
  /\ pageViews[invoked[1].storyId].pageNum = 1

(* C7: on one instance of useStoryReadingAnalytics, trackReadingStart       *)
(* forwards trackReadingStoryStart at most once between finishes: a start   *)
(* is forwarded only while the session is not marked started and marks it;  *)
(* the mark is dropped only by a callback that forwards the finish; and a   *)
(* trackReadingStart while marked forwards nothing.                         *)
C7_StartForwardedOncePerSession ==
  [][ LET starts == CallsOf(invoked', "trackReadingStoryStart")
          finishes == CallsOf(invoked', "trackReadingStoryFinish")
      IN  /\ (call'.name = "trackReadingStart" /\ sessionStartedRef)
               => invoked' = << >> /\ emitted' = << >> /\ sessionStartedRef'
          /\ (call'.layer = "hook" /\ starts # << >>)
               => /\ call'.name = "trackReadingStart"
                  /\ Len(starts) = 1
                  /\ ~sessionStartedRef /\ sessionStartedRef'
          /\ (sessionStartedRef /\ ~sessionStartedRef')
               => /\ call'.name \in {"trackPageView", "trackStoryFinish"}
                  /\ Len(finishes) = 1
          /\ (~sessionStartedRef /\ sessionStartedRef')
               => call'.name = "trackReadingStart" /\ Len(starts) = 1 ]_vars

\* trackReadingStart again, later, on a session still marked started
C7_Witness ==
  /\ call.name = "trackReadingStart"
  /\ ReadingPropsPresent
  /\ sessionStartedRef
  /\ invoked = << >>
  /\ Has(readingSessions, ReadingPropsKey)
  /\ readingSessions[ReadingPropsKey] < now

(* C8: a callback of a wrapper hook returns without invoking any tracker    *)
(* operation when an identifier its guard tests is null: userId or kidId    *)
(* for the creation hook, userId or storyId for the image hook (its         *)
(* optional kidId is never required), storyId for every callback of the     *)
(* reading hook and userId for all of them but trackPageView, which with a  *)
(* storyId and no userId still forwards trackStoryPageView and only leaves  *)
(* out the finish.                                                          *)
CreationCallbacks ==
  {"trackCreationStart", "trackTitleGenerationStart", "trackTitleGenerationComplete",
   "trackStoryTextGenerationStart", "trackStoryTextGenerationComplete",
   "trackCreationComplete", "trackCreationError"}
ImageCallbacks ==
  {"trackImageGenerationStart", "trackImageGenerationComplete",
   "trackImageGenerationError"}
ReadingCallbacks ==
  {"trackReadingStart", "trackPageView", "trackSelectedPath", "trackStoryFinish"}

\* an identifier the hook of the last callback was given is null
GivenIdIsNull ==
  \/ call.name \in CreationCallbacks /\ ~CreationPropsPresent
  \/ call.name \in ImageCallbacks /\ ~ImagePropsPresent
  \/ call.name \in ReadingCallbacks /\ ~ReadingPropsPresent

\* an identifier the guard of the last callback tests is null
TestedIdIsNull ==
  \/ call.name \in CreationCallbacks /\ ~CreationPropsPresent
  \/ call.name \in ImageCallbacks /\ ~ImagePropsPresent
  \/ call.name \in ReadingCallbacks \ {"trackPageView"} /\ ~ReadingPropsPresent
  \/ call.name = "trackPageView" /\ ~Truthy(readingProps.storyId)

C8_TestedNullIdSkipsTracker ==
  /\ (call.layer = "hook" /\ TestedIdIsNull)
       => invoked = << >> /\ emitted = << >>
  /\ (call.layer = "hook" /\ call.name = "trackPageView"
      /\ Truthy(readingProps.storyId) /\ ~Truthy(readingProps.userId))
       => /\ Len(invoked) = 1
          /\ invoked[1].op = "trackStoryPageView"
          /\ invoked[1].storyId = readingProps.storyId

\* the statement as the claim has it: any null identifier, any callback
C8_AnyNullIdSkipsTracker ==
  (call.layer = "hook" /\ GivenIdIsNull) => invoked = << >>

\* an ending page viewed on a started session after the userId became null
C8_Witness ==
  /\ call.name = "trackPageView"
  /\ readingProps.userId = NULL /\ Truthy(readingProps.storyId)
  /\ sessionStartedRef
  /\ Len(invoked) = 1
  /\ invoked[1].op = "trackStoryPageView" /\ invoked[1].pageType \in {"good", "bad"}
  /\ \E u \in UserIds : Has(readingSessions, <<readingProps.storyId, u>>)

(* C9: completeImageGeneration with a cost and a kidId for which a creation *)
(* session (userId, kidId) is active increases that session's image-cost    *)
(* bucket by the supplied cost and leaves its other fields alone; with no   *)
(* such session it creates none; either way creating_image_finish is        *)
(* emitted once.                                                            *)
C9_ImageCostFoldsIntoCreationSession ==
  [][ (call'.name = "trackImageGenerationComplete" /\ ImagePropsPresent)
      => LET key == <<imageProps.userId, imageProps.kidId>> IN
         /\ Len(invoked') = 1
         /\ Len(EventsNamed(emitted', "creating_image_finish")) = 1
         /\ IF imageProps.kidId # NULL /\ Has(creationSessions, key)
              THEN /\ DOMAIN creationSessions' = DOMAIN creationSessions
                   /\ creationSessions'[key].imageCost =
                        creationSessions[key].imageCost + CostOrZero(invoked'[1].cost)
                   /\ creationSessions'[key].titleCost = creationSessions[key].titleCost
                   /\ creationSessions'[key].textCost = creationSessions[key].textCost
                   /\ creationSessions'[key].startTime = creationSessions[key].startTime
                   /\ \A k \in DOMAIN creationSessions \ {key} :
                        creationSessions'[k] = creationSessions[k]
              ELSE creationSessions' = creationSessions ]_vars

\* an image completion that brought the first image cost to a session with other costs
C9_Witness ==
  /\ call.name = "trackImageGenerationComplete"
  /\ Len(invoked) = 1 /\ invoked[1].cost = << MaxCost >>
  /\ invoked[1].kidId = creationProps.kidId
  /\ Has(creationSessions, CreationPropsKey)
  /\ creationSessions[CreationPropsKey].imageCost = MaxCost
  /\ creationSessions[CreationPropsKey].titleCost = MaxCost
  /\ creationSessions[CreationPropsKey].startTime < now

(* C10: for each of the three session kinds and each key, the registry      *)
(* holds an entry exactly when a start for the key has happened with no     *)
(* later complete, error or finish for it, and the entry carries the time   *)
(* of the latest such start: nothing else removes or ages an entry.         *)
StartedKeys(kind) == {k[2] : k \in {j \in DOMAIN history : j[1] = kind}}

C10_RegistryFollowsLifecycle ==
  /\ DOMAIN creationSessions = StartedKeys("creation")
  /\ DOMAIN readingSessions = StartedKeys("reading")
  /\ DOMAIN imageSessions = StartedKeys("image")
  /\ \A k \in DOMAIN creationSessions :
       creationSessions[k].startTime = history[<<"creation", k>>].startTime
  /\ \A k \in DOMAIN readingSessions :
       readingSessions[k] = history[<<"reading", k>>].startTime
  /\ \A k \in DOMAIN imageSessions :
       imageSessions[k] = history[<<"image", k>>].startTime

\* an image session ended by an error while an older creation session stays on
C10_Witness ==
  /\ call.name = "trackImageGenerationError"
  /\ Len(emitted) = 1 /\ emitted[1].duration_ms > 0
  /\ imageSessions = EmptyMap
  /\ Has(creationSessions, CreationPropsKey)
  /\ creationSessions[CreationPropsKey].startTime = 0
  /\ now = MaxTime

(* C11: a finish that ends a reading session clears the page-view baseline  *)
(* of the story together with the session, so the first trackPageView      *)
(* after it is treated as a first call: it emits no story_page_view, and a  *)
(* page viewed before the finish is never reported after it.                *)
FinishedStories(events) ==
  {events[i].story_id : i \in {j \in 1..Len(events) :
                                 events[j].name = "reading_story_finish"}}

C11_FinishClearsPageViewBaseline ==
  [][ /\ \A i \in 1..Len(emitted') :
           emitted'[i].name = "reading_story_finish"
             => /\ ~Has(pageViews', emitted'[i].story_id)
                /\ ~Has(readingSessions',
                        <<emitted'[i].story_id, emitted'[i].user_id>>)
      \* the step that follows the finish
      /\ \A s \in FinishedStories(emitted) :
           /\ ~Has(pageViews, s)
           /\ \A i \in 1..Len(invoked') :
                (invoked'[i].op = "trackStoryPageView" /\ invoked'[i].storyId = s)
                  => /\ EventsNamed(emitted', "story_page_view") = << >>
                     /\ (Len(invoked') = 1
                           => pageViews'[s].startTime = now
                              /\ pageViews'[s].pageNum = invoked'[i].pageNum)
      \* a reported page is the baseline, which no finish has cleared since
      /\ \A i \in 1..Len(emitted') :
           emitted'[i].name = "story_page_view"
             => /\ Has(pageViews, emitted'[i].story_id)
                /\ emitted'[i].story_id \notin FinishedStories(emitted) ]_vars

\* an ending page viewed later than the page before it: that page is reported, the
\* session is finished and the baseline the view had just recorded is gone
C11_Witness ==
  /\ call.name = "trackPageView"
  /\ Len(invoked) = 2 /\ invoked[2].op = "trackReadingStoryFinish"
  /\ Len(emitted) = 2
  /\ emitted[1].name = "story_page_view" /\ emitted[1].duration_ms > 0
  /\ emitted[2].name = "reading_story_finish"
  /\ ~Has(pageViews, emitted[2].story_id)
  /\ readingSessions = EmptyMap

(* C12: completeTitleGeneration (completeTextGeneration) adds the supplied  *)
(* cost to the title (text) bucket of the creation session of (userId,      *)
(* kidId) when one is active and changes nothing else of it; when none is   *)
(* active the cost is dropped and no session is created; an openai_cost     *)
(* event is emitted if and only if a cost was supplied.                     *)
CostFolded(callback, bucket, operation) ==
  (call'.name = callback /\ CreationPropsPresent)
    => /\ Len(invoked') = 1
       /\ IF Has(creationSessions, CreationPropsKey)
            THEN creationSessions' =
                   [creationSessions EXCEPT ![CreationPropsKey][bucket] =
                                              @ + CostOrZero(invoked'[1].cost)]
            ELSE creationSessions' = creationSessions
       /\ LET paid == EventsNamed(emitted', "openai_cost") IN
          /\ Len(paid) = Len(invoked'[1].cost)
          /\ paid # << >> => /\ paid[1].cost_usd = invoked'[1].cost[1]
                             /\ paid[1].operation = operation
                             /\ paid[1].user_id = creationProps.userId

C12_TitleAndTextCostFold ==
  [][ /\ CostFolded("trackTitleGenerationComplete", "titleCost", "title_generation")
      /\ CostFolded("trackStoryTextGenerationComplete", "textCost", "story_generation")
    ]_vars

\* a title completion that brought a cost to a session started earlier
C12_Witness ==
  /\ call.name = "trackTitleGenerationComplete"
  /\ Len(emitted) = 2
  /\ emitted[2].name = "openai_cost" /\ emitted[2].cost_usd = MaxCost
  /\ Has(creationSessions, CreationPropsKey)
  /\ creationSessions[CreationPropsKey].titleCost = MaxCost
  /\ creationSessions[CreationPropsKey].textCost = 0
  /\ creationSessions[CreationPropsKey].startTime < now

(* C13: trackSelectedPath and trackOpenAICost are stateless: each call      *)
(* emits its one event (reading_story_selected_path, openai_cost) whether   *)
(* or not any session exists, and leaves every session registry, cost       *)
(* bucket, sub-timer and page-view baseline, and the hook's started mark,   *)
(* unchanged.                                                               *)
C13_StatelessOperations ==
  [][ /\ (call'.name = "trackSelectedPath" /\ ReadingPropsPresent)
           => /\ Len(invoked') = 1
              /\ invoked'[1].op = "trackReadingStorySelectedPath"
              /\ invoked'[1].storyId = readingProps.storyId
              /\ invoked'[1].userId = readingProps.userId
              /\ UNCHANGED sessionStartedRef
      /\ call'.name = "trackOpenAICost" => Len(invoked') = 1
      /\ (Len(invoked') = 1 /\ invoked'[1].op = "trackReadingStorySelectedPath")
           => /\ UNCHANGED trackerVars
              /\ emitted' = << [name |-> "reading_story_selected_path",
                                timestamp |-> now,
                                user_id |-> invoked'[1].userId,
                                story_id |-> invoked'[1].storyId,
                                path_type |-> invoked'[1].pageType,
                                page_num |-> invoked'[1].pageNum] >>
      /\ (Len(invoked') = 1 /\ invoked'[1].op = "trackOpenAICost")
           => /\ UNCHANGED trackerVars
              /\ emitted' = << [name |-> "openai_cost", timestamp |-> now,
                                user_id |-> invoked'[1].userId,
                                operation |-> invoked'[1].operation,
                                cost_usd |-> invoked'[1].cost[1]] >> ]_vars

\* a path chosen while a reading session and a page-view baseline are there
C13_Witness ==
  /\ call.name = "trackSelectedPath"
  /\ Len(emitted) = 1 /\ emitted[1].name = "reading_story_selected_path"
  /\ ReadingPropsPresent
  /\ Has(readingSessions, ReadingPropsKey)
  /\ readingSessions[ReadingPropsKey] < now
  /\ Has(pageViews, readingProps.storyId)
  /\ sessionStartedRef

(* C15: in useStoryReadingAnalytics a trackPageView for a 'good' or 'bad'   *)
(* page, made while the session is marked started and userId is present,   *)
(* forwards the page view first and then trackReadingStoryFinish exactly    *)
(* once, and marks the session not started; while it is not marked started  *)
(* neither trackStoryFinish nor another ending page view forwards a finish; *)
(* so the finishes forwarded never outnumber the starts forwarded.          *)
C15_EndingPageFinishesOnce ==
  [][ /\ (call'.name = "trackPageView" /\ Truthy(readingProps.storyId))
           => /\ Len(invoked') >= 1
              /\ invoked'[1].op = "trackStoryPageView"
              /\ invoked'[1].storyId = readingProps.storyId
              /\ IF /\ invoked'[1].pageType \in {"good", "bad"}
                    /\ sessionStartedRef
                    /\ Truthy(readingProps.userId)
                   THEN /\ Len(invoked') = 2
                        /\ invoked'[2] = Forward("trackReadingStoryFinish",
                                                 readingProps.userId, NULL,
                                                 readingProps.storyId)
                        /\ ~sessionStartedRef'
                   ELSE Len(invoked') = 1 /\ UNCHANGED sessionStartedRef
      /\ (call'.layer = "hook" /\ ~sessionStartedRef)
           => Count(invoked', "trackReadingStoryFinish") = 0
      /\ call'.layer = "hook" => Count(invoked', "trackReadingStoryFinish") <= 1
      /\ pending' >= 0
      /\ pending' = IF sessionStartedRef' THEN 1 ELSE 0 ]_vars

\* an ending page that closed a session started earlier, after a page before it
C15_Witness ==
  /\ call.name = "trackPageView"
  /\ Len(invoked) = 2
  /\ invoked[1].op = "trackStoryPageView" /\ invoked[1].pageType = "bad"
  /\ invoked[2].op = "trackReadingStoryFinish"
  /\ Len(emitted) = 2
  /\ emitted[2].name = "reading_story_finish" /\ emitted[2].duration_ms > 0
  /\ ~sessionStartedRef
  /\ pending = 0

(* C16: every trackReadingStoryFinish(storyId, userId) the reading hook     *)
(* forwards is preceded by a forwarded trackReadingStoryStart for the same  *)
(* storyId and userId with no forwarded finish in between, also when the    *)
(* hook's storyId or userId changes while the session is marked started.    *)
C16_FinishFollowsStartOfSameKey ==
  [][ call'.layer = "hook"
      => \A i \in 1..Len(invoked') :
           invoked'[i].op = "trackReadingStoryFinish"
             => StartedKeyAfter(startedKey, SubSeq(invoked', 1, i - 1))
                  = ReadingKey(invoked'[i]) ]_vars

KidsAge == kids.clock - kids.lastFetched[1]

C17_KidsFetchedWhenStale ==
  [][ /\ kids'.ran = "effect"
           => LET fetches == CallsNamed(kids'.called, "fetchKids") IN
              /\ Len(fetches) <= 1
              /\ fetches # << >>
                   <=> /\ Truthy(kids.uid)
                       /\ (kids.lastFetched = NeverFetched \/ KidsAge > StaleMs)
              /\ fetches # << >> => fetches[1].arg = kids.uid
      /\ kids'.ran = "refreshKids"
           => LET fetches == CallsNamed(kids'.called, "fetchKids") IN
              /\ Len(fetches) <= 1
              /\ fetches # << >> <=> Truthy(kids.uid)
              /\ fetches # << >> => fetches[1].arg = kids.uid
      /\ kids'.ran \notin {"effect", "refreshKids"} => kids'.called = << >> ]_vars

\* the effect ran on data fetched exactly five minutes before and fetched nothing
C17_Witness ==
  /\ kids.ran = "effect"
  /\ kids.called = << >>
  /\ Truthy(kids.uid)
  /\ kids.lastFetched # NeverFetched
  /\ KidsAge = StaleMs

(* C18: in QuickGenerateDialog.handleSubmit a submit with an empty or       *)
(* whitespace-only problem makes no generation call and does not report     *)
(* generating; a submit with any other problem reports                      *)
(* onGeneratingChange(true) before the remote call and, the remote calls    *)
(* settling, always comes to report onGeneratingChange(false), on success   *)
(* and on failure alike; the input fields are reset only on success.        *)
\* empty, or blanks only
Blank(text) == \A i \in 1..Len(text) : text[i] = " "

Positions(trace, ev, arg) == {i \in 1..Len(trace) : trace[i] = Did(ev, arg)}

Succeeded(trace) ==
  /\ Positions(trace, "generateFullStory", "resolved") # {}
  /\ Positions(trace, "getStoryById", "resolved") # {}
  /\ Positions(trace, "onStoryCreated", "threw") = {}
  /\ Positions(trace, "toast", "Generation Failed") = {}

C18_SubmitStep ==
  /\ (dialog'.ran = "handleSubmit" /\ dialog.pc = "idle" /\ Blank(dialog.problem))
       => /\ Positions(dialog'.trace, "generateFullStory", "called") = {}
          /\ Positions(dialog'.trace, "onGeneratingChange", "true") = {}
          /\ dialog'.pc = "idle"
          /\ dialog'.isGenerating = dialog.isGenerating
  /\ (dialog'.ran = "handleSubmit" /\ dialog.pc = "idle" /\ ~Blank(dialog.problem))
       => /\ Cardinality(Positions(dialog'.trace, "onGeneratingChange", "true")) = 1
          /\ Cardinality(Positions(dialog'.trace, "generateFullStory", "called")) = 1
          /\ \A i \in Positions(dialog'.trace, "onGeneratingChange", "true") :
               \A j \in Positions(dialog'.trace, "generateFullStory", "called") : i < j
          /\ dialog'.request[1] = dialog.problem
          /\ dialog'.pc # "idle"
  \* the handler returns: the last report is `false`, made once
  /\ (dialog.pc # "idle" /\ dialog'.pc = "idle")
       => /\ Cardinality(Positions(dialog'.trace, "onGeneratingChange", "false")) = 1
          /\ \A i \in Positions(dialog'.trace, "onGeneratingChange", "true") :
               \A j \in Positions(dialog'.trace, "onGeneratingChange", "false") : i < j
          /\ ~dialog'.isGenerating
  \* the fields are reset only on success
  /\ (dialog'.ran # "type" /\ <<dialog'.problem, dialog'.advantages, dialog'.disadvantages>>
                               # <<dialog.problem, dialog.advantages, dialog.disadvantages>>)
       => /\ Succeeded(dialog'.trace)
          /\ dialog'.problem = << >>
          /\ dialog'.advantages = << >> /\ dialog'.disadvantages = << >>
  /\ (dialog.pc # "idle" /\ dialog'.pc = "idle" /\ ~Succeeded(dialog'.trace))
       => dialog'.problem = dialog.problem

C18_GeneratingIsReportedAndEnds ==
  /\ [][C18_SubmitStep]_vars
  /\ (dialog.pc # "idle") ~> (dialog.pc = "idle" /\ ~dialog.isGenerating)

\* a submit of a problem with a blank in it failed after the story was generated:
\* `false` was reported and the fields kept
C18_Witness ==
  /\ dialog.ran = "fetchSettles"
  /\ dialog.pc = "idle"
  /\ Positions(dialog.trace, "getStoryById", "rejected") # {}
  /\ Positions(dialog.trace, "onGeneratingChange", "false") # {}
  /\ dialog.problem = <<" ", "a">>
  /\ ~dialog.isGenerating

====
